---- MODULE Spec2Model ----
(***************************************************************************)
(* Command-dispatch and session-state engine of native_hook/main_hook.py:  *)
(* the websocket sessions (register / handle_message / unregister), the    *)
(* filesystem watch manager (global_observer, monitored_paths_details),    *)
(* the watcher thread's bridge into the event loop                         *)
(* (AsyncFileSystemEventHandler) and the three history rings.              *)
(*                                                                         *)
(* Two threads of execution are modelled: the asyncio event loop, whose    *)
(* steps run from one await to the next, and the watchdog observer thread, *)
(* whose steps interleave freely with the loop's.                          *)
(***************************************************************************)
EXTENDS Integers, Sequences, FiniteSets, TLC

\* ------------------------------------------------------------------ bounds
\* Frames handled in one run of Spec.
MaxMsgs == 2
\* Frames handled and filesystem changes detected in one run of BridgeSpec.
MaxBridgeMsgs == 2
MaxEvents == 2
\* Frames handled in one run of WatchSpec.
MaxWatchMsgs == 3
\* Entries appended to the history rings in a run that fills them.
MaxRingOps == 11
\* get_hook_context_history calls in such a run.
MaxHistoryCalls == 2
\* Elements of an accessibility tree handed to _find_ax_element_recursive.
MaxNodes == 3

\* ------------------------------------------------------- program constants
MAX_HISTORY_ITEMS == 10

\* ------------------------------------------------------------ input domains
\* Connection objects (websockets), numbered in the order they are accepted.
Clients == {1, 2}
\* Paths a client may name: "a" and "b" exist on disk, "x" does not.
PathNames == {"a", "b", "x"}
\* A disk on which every path exists (fault injection).
EveryPathExists == PathNames
ExistingPaths == {"a", "b"}
\* Correlation ids.  Every id is a pair <<origin, n>>: chosen by a client,
\* drawn by the server (a uuid), or missing.  A client numbers its envelopes
\* with the ids it has not used yet, or leaves the id out (NoId).
ClientId(n) == <<"id", n>>
IsClientId(id) == id[1] = "id"
NoId == <<"absent", 0>>
None == "None"
NoEntry == <<>>

EventTypes == {"created", "deleted", "modified", "moved"}

VARIABLES
    conn,                     \* [Clients -> "new" | "open" | "closed" | "done" | "aborted"]
    connected_clients,        \* the connection registry (a set of websockets)
    global_observer,          \* "None" | "created" | "stopped" | "alive" | "dead"
    emitters,                 \* [PathNames -> Nat]: handlers scheduled per watched path
    monitored_paths_details,  \* the watch-registration map (a function on a set of paths)
    active_app_history,       \* ring of <<record, timestamp>>
    file_event_history,       \* ring of <<record, timestamp>>
    hook_executed_command_history, \* ring of <<record, timestamp>>
    wpc,                      \* watcher thread: "idle" | "append"
    wev,                      \* the history entry the watcher thread is about to append
    scheduled,                \* send_async coroutines handed to the loop, not yet started
    running,                  \* send_async coroutines in progress: [msg, todo]
    sent,                     \* [Clients -> Seq of what was written to that connection]
    received,                 \* [Clients -> Seq of frames handled on that connection]
    clock,                    \* time.time(), as a counter
    uuids,                    \* uuid.uuid4() values drawn so far
    nmsgs,                    \* frames handled so far
    ndetected,                \* handler callbacks (on_created, ...) invoked so far
    nforwarded,               \* calls of send_event_to_clients so far
    nappended,                \* appends to file_event_history so far
    features,                 \* what the imports at start-up found: "none" | "appkit" | "ax"
    registry_threads,         \* threads that have touched connected_clients or a connection
    ring_threads,             \* threads that have appended to a history ring
    changes,                  \* the changes detected so far, with what the watcher did
    snapshots,                \* the registry snapshot each broadcast took
    inserted,                 \* per ring, every entry appended to it so far
    ax_input,                 \* the arguments of a call of _find_ax_element_recursive
    ax_found,                 \* what that call returned
    ax_press,                 \* what click_button_in_target did with the element found
    call,                     \* the blocking external call handle_message is waiting in
    invoked                   \* the external actions performed so far, in order

vars == <<conn, connected_clients, global_observer, emitters, monitored_paths_details,
          active_app_history, file_event_history, hook_executed_command_history,
          wpc, wev, scheduled, running, sent, received,
          clock, uuids, nmsgs, ndetected, nforwarded, nappended, features,
          registry_threads, ring_threads, changes, snapshots, inserted,
          ax_input, ax_found, call, invoked>>

connVars == <<conn, connected_clients>>
watchVars == <<global_observer, emitters, monitored_paths_details>>
ringVars == <<active_app_history, file_event_history, hook_executed_command_history>>
threadVars == <<wpc, wev>>
taskVars == <<scheduled, running>>
wireVars == <<sent, received, nmsgs>>
countVars == <<ndetected, nforwarded, nappended, features>>
ghostVars == <<changes, snapshots>>
axVars == <<ax_input, ax_found, ax_press>>
extVars == <<call, invoked>>


\* ------------------------------------------------------------ history rings
\* collections.deque(maxlen=MAX_HISTORY_ITEMS).append: the oldest entry is
\* dropped when the ring is full.
\* A list that never drops an entry (fault injection).
AppendUnbounded(dq, entry) == Append(dq, entry)

DequeAppend(dq, entry) ==
    IF Len(dq) >= MAX_HISTORY_ITEMS
    THEN Append(Tail(dq), entry)
    ELSE Append(dq, entry)

\* A formatter that lists the newest entry first (fault injection).
format_newest_first(dq) ==
    [i \in 1..Len(dq) |-> [item |-> dq[Len(dq) + 1 - i][1],
                            timestamp |-> dq[Len(dq) + 1 - i][2]]]

\* format_history: the ring's content, oldest first, as item/timestamp pairs.
format_history(dq) ==
    [i \in 1..Len(dq) |-> [item |-> dq[i][1], timestamp |-> dq[i][2]]]

Last(seq) == seq[Len(seq)]

NoEmitters == [p \in PathNames |-> 0]
EmptyMap == [p \in {} |-> None]

\* No call of _find_ax_element_recursive is modelled.
NoSearch == <<>>
NotSearched == -1
\* click_button_in_target has not got past its search.
NotPressed == <<>>

\* handle_message is not waiting for an external process.
NoCall == [c |-> 0, f |-> <<>>]

\* The module's globals at start-up.
ServerInit ==
    /\ conn = [c \in Clients |-> "new"]
    /\ connected_clients = {}
    /\ global_observer = "None"
    /\ emitters = NoEmitters
    /\ monitored_paths_details = EmptyMap
    /\ active_app_history = <<>>
    /\ file_event_history = <<>>
    /\ hook_executed_command_history = <<>>
    /\ wpc = "idle"
    /\ wev = NoEntry
    /\ scheduled = <<>>
    /\ running = {}
    /\ sent = [c \in Clients |-> <<>>]
    /\ received = [c \in Clients |-> <<>>]
    /\ clock = 0
    /\ uuids = 0
    /\ nmsgs = 0
    /\ ndetected = 0
    /\ nforwarded = 0
    /\ nappended = 0
    /\ features \in {"none", "appkit", "ax"}
    /\ registry_threads = {}
    /\ ring_threads = {}
    /\ changes = <<>>
    /\ snapshots = {}
    /\ inserted = [app |-> <<>>, file |-> <<>>, exec |-> <<>>]
    /\ call = NoCall
    /\ invoked = <<>>

Init ==
    /\ ServerInit
    /\ ax_input = NoSearch
    /\ ax_found = NotSearched
    /\ ax_press = NotPressed

\* ------------------------------------------------------------- connections
\* register, up to its first wait for a message: the connection is accepted
\* and added to the registry.  Connections are accepted in numeric order.
Register(c) ==
    /\ conn[c] = "new"
    /\ \A d \in Clients : d < c => conn[d] # "new"
    /\ conn' = [conn EXCEPT ![c] = "open"]
    /\ connected_clients' = connected_clients \cup {c}
    /\ registry_threads' = registry_threads \cup {"loop"}
    /\ UNCHANGED <<watchVars, ringVars, threadVars, taskVars, wireVars, countVars,
                   clock, uuids, ring_threads, ghostVars, axVars, inserted, extVars>>

\* The transport fails or the peer goes away: sends on the connection raise
\* ConnectionClosed from now on; the session has not yet noticed.
TransportClosed(c) ==
    /\ conn[c] = "open"
    /\ conn' = [conn EXCEPT ![c] = "closed"]
    /\ UNCHANGED <<connected_clients, watchVars, ringVars, threadVars, taskVars,
                   wireVars, countVars, clock, uuids, registry_threads, ring_threads,
                   ghostVars, axVars, inserted, extVars>>

\* An unregister that removes nothing.
keep_registered(clients, c) == clients

\* unregister: removing an absent connection is a no-op.
unregister(clients, c) == IF c \in clients THEN clients \ {c} ELSE clients

\* A session end that also stops the watcher and drops its registrations.
SessionEndStopsWatch(c) ==
    /\ conn[c] = "closed"
    /\ conn' = [conn EXCEPT ![c] = "done"]
    /\ connected_clients' = unregister(connected_clients, c)
    /\ registry_threads' = registry_threads \cup {"loop"}
    /\ global_observer' = "None"
    /\ emitters' = NoEmitters
    /\ monitored_paths_details' = EmptyMap
    /\ UNCHANGED <<ringVars, threadVars, taskVars, wireVars, countVars,
                   clock, uuids, ring_threads, ghostVars, axVars, inserted, extVars>>

\* register's message loop ends on the closed transport; finally: unregister.
SessionEnd(c) ==
    /\ conn[c] = "closed"
    /\ conn' = [conn EXCEPT ![c] = "done"]
    /\ connected_clients' = unregister(connected_clients, c)
    /\ registry_threads' = registry_threads \cup {"loop"}
    /\ UNCHANGED <<watchVars, ringVars, threadVars, taskVars, wireVars, countVars,
                   clock, uuids, ring_threads, ghostVars, axVars, inserted, extVars>>

\* ---------------------------------------------------------- watcher thread
\* What the observer hands to the handler: the kind of change, whether its
\* subject is a directory, and the watched path it happened under.
Changes == [event_type : EventTypes, is_directory : BOOLEAN, src_path : PathNames]

\* Callbacks that all pass a destination.
AlwaysDest(ch) == "dst"

\* on_moved's dest_path; the other callbacks pass none.
DestPath(ch) == IF ch.event_type = "moved" THEN "dst" ELSE None

\* on_created / on_deleted / on_modified / on_moved: every callback calls
\* send_event_to_clients, except on_modified for a directory.
Forwards(ch) == ~(ch.event_type = "modified" /\ ch.is_directory)

\* A handler without the early return of line 245 (fault injection).
NeverReturns(clients) == FALSE

\* send_event_to_clients, line 245: the early return when the registry,
\* read here by the watcher thread, is empty.
NoClientsReturn(clients) == clients = {}

\* message_payload (lines 249-256) with timestamp ts.
MessagePayload(ch, ts) ==
    IF DestPath(ch) # None
    THEN [event_type |-> ch.event_type, src_path |-> ch.src_path,
          is_directory |-> ch.is_directory, timestamp |-> ts,
          dest_path |-> DestPath(ch)]
    ELSE [event_type |-> ch.event_type, src_path |-> ch.src_path,
          is_directory |-> ch.is_directory, timestamp |-> ts]

\* message_to_send (lines 258-263); u is the uuid drawn for it.
MessageToSend(ch, ts, u) ==
    [kind |-> "broadcast", id |-> <<"fs_event", u>>, type |-> "file_system_event",
     status |-> "success", payload |-> MessagePayload(ch, ts)]

\* history_entry with the payload's timestamp (lines 280-287).
HistoryEntry(ch, ts) ==
    IF DestPath(ch) # None
    THEN <<[event_type |-> ch.event_type, src_path |-> ch.src_path,
            is_directory |-> ch.is_directory, dest_path |-> DestPath(ch)], ts>>
    ELSE <<[event_type |-> ch.event_type, src_path |-> ch.src_path,
            is_directory |-> ch.is_directory], ts>>

\* send_event_to_clients on the watcher thread, up to the return of
\* run_coroutine_threadsafe (line 278): nothing happens when the registry is
\* empty; otherwise the envelope is built and send_async is scheduled on the
\* loop.  changes keeps, for every detected change, the registry the watcher
\* saw and the id of the envelope built for it (NoId when none was built).
Callback(ch) ==
    IF ~Forwards(ch)
    THEN /\ changes' = Append(changes, [ch |-> ch, clients |-> connected_clients,
                                         id |-> NoId])
         /\ UNCHANGED <<threadVars, scheduled, clock, uuids, nforwarded, registry_threads>>
    ELSE /\ nforwarded' = nforwarded + 1
         /\ registry_threads' = registry_threads \cup {"watcher"}
         /\ IF NoClientsReturn(connected_clients)
            THEN /\ changes' = Append(changes, [ch |-> ch, clients |-> {}, id |-> NoId])
                 /\ UNCHANGED <<threadVars, scheduled, clock, uuids>>
            ELSE /\ clock' = clock + 1
                 /\ uuids' = uuids + 1
                 /\ scheduled' = Append(scheduled, MessageToSend(ch, clock + 1, uuids + 1))
                 /\ changes' = Append(changes, [ch |-> ch, clients |-> connected_clients,
                                                 id |-> <<"fs_event", uuids + 1>>])
                 /\ wpc' = "append"
                 /\ wev' = <<ch, clock + 1>>

\* The observer thread detects a change under a watched path and calls the
\* handler's on_created / on_deleted / on_modified / on_moved.
Detect(ch) ==
    /\ global_observer = "alive"
    /\ emitters[ch.src_path] > 0
    /\ wpc = "idle"
    /\ ndetected' = ndetected + 1
    /\ Callback(ch)
    /\ UNCHANGED <<connVars, watchVars, ringVars, running, wireVars, nappended,
                   features, ring_threads, snapshots, axVars, inserted, extVars>>

\* send_event_to_clients after run_coroutine_threadsafe has returned: the
\* append to file_event_history (line 287), on the watcher thread.
WatcherAppend ==
    /\ wpc = "append"
    /\ file_event_history' = DequeAppend(file_event_history, HistoryEntry(wev[1], wev[2]))
    /\ inserted' = [inserted EXCEPT !.file = Append(@, HistoryEntry(wev[1], wev[2]))]
    /\ nappended' = nappended + 1
    /\ ring_threads' = ring_threads \cup {"watcher"}
    /\ wpc' = "idle"
    /\ wev' = NoEntry
    /\ UNCHANGED <<connVars, watchVars, active_app_history,
                   hook_executed_command_history, taskVars, wireVars, ndetected,
                   nforwarded, features, clock, uuids, registry_threads, ghostVars, axVars,
                   extVars>>

\* A send that is repeated once.
BroadcastSendTwice(log, c, msg) ==
    IF conn[c] = "open"
    THEN [log EXCEPT ![c] = Append(Append(@, msg), msg)]
    ELSE log

\* ------------------------------------------------------- broadcast (loop)
\* client_ws.send inside send_async: the envelope reaches an open
\* connection; ConnectionClosed (or any other error) is logged and skipped.
BroadcastSendTo(log, c, msg) ==
    IF conn[c] = "open"
    THEN [log EXCEPT ![c] = Append(@, msg)]
    ELSE log

\* send_async starts on the loop: it takes the snapshot of the registry and
\* runs up to its first await, the send to the first client of the snapshot.
BroadcastStart ==
    /\ scheduled # <<>>
    /\ LET msg == Head(scheduled)
           snapshot == connected_clients
       IN /\ scheduled' = Tail(scheduled)
          /\ registry_threads' = registry_threads \cup {"loop"}
          /\ snapshots' = snapshots \cup {[id |-> msg.id, clients |-> snapshot]}
          /\ IF snapshot = {}
             THEN UNCHANGED <<running, sent>>
             ELSE \E c \in snapshot :
                    /\ sent' = BroadcastSendTo(sent, c, msg)
                    /\ running' = IF snapshot = {c} THEN running
                                  ELSE running \cup {[msg |-> msg, todo |-> snapshot \ {c}]}
    /\ UNCHANGED <<connVars, watchVars, ringVars, threadVars, received,
                   nmsgs, countVars, clock, uuids, ring_threads, changes,
                   axVars, inserted, extVars>>

\* send_async resumes after an await and sends to the next client of its
\* snapshot.
BroadcastStep ==
    \E t \in running : \E c \in t.todo :
        /\ sent' = BroadcastSendTo(sent, c, t.msg)
        /\ running' = IF t.todo = {c} THEN running \ {t}
                      ELSE (running \ {t}) \cup {[msg |-> t.msg, todo |-> t.todo \ {c}]}
        /\ UNCHANGED <<connVars, watchVars, ringVars, threadVars, scheduled, received,
                       nmsgs, countVars, clock, uuids,
                       registry_threads, ring_threads, ghostVars, axVars, inserted, extVars>>

\* ------------------------------------------------------------------ frames
\* Feature flags set by the imports at lines 23-50.
APPKIT_LOADED == features \in {"appkit", "ax"}
MACOS_FEATURES_ENABLED == features \in {"appkit", "ax"}
AX_FEATURES_ENABLED == features = "ax"

\* A payload is absent (None), a JSON string, or a JSON object.  keys holds
\* the keys of the object that carry a usable (non-null, non-empty) value;
\* the other fields give the values of the keys whose value matters.
Dict(keys) ==
    [t |-> "dict", keys |-> keys, paths |-> <<>>, paths_ty |-> "list",
     recursive |-> TRUE, alias |-> None, button |-> "left", click_type |-> "click"]
Absent == [Dict({}) EXCEPT !.t = "absent"]
Str == [Dict({}) EXCEPT !.t = "str"]

IsDict(payload) == payload.t = "dict"
Has(payload, key) == IsDict(payload) /\ key \in payload.keys

\* The "paths" lists a client sends, and the options it sends with them.
PathLists ==
    {<<>>, <<"a">>, <<"b">>, <<"x">>, <<"a", "a">>, <<"a", "b">>, <<"x", "a">>,
     <<"b", "x">>}
WatchOptions == {[recursive |-> TRUE, alias |-> None], [recursive |-> FALSE, alias |-> "w"]}
DefaultOptions == [recursive |-> TRUE, alias |-> None]

\* {paths: [...], recursive, alias}
WithPaths(list, opt) ==
    [Dict({"paths"}) EXCEPT !.paths = list, !.recursive = opt.recursive,
                            !.alias = opt.alias]
\* {paths: <a value of type ty>}: a string, or a list holding a non-string
BadPaths(ty) == [Dict({"paths"}) EXCEPT !.paths_ty = ty]

Commands ==
    {"ping", "get_active_application_info", "trigger_screen_capture",
     "simulate_keystrokes", "get_focused_input_text", "type_in_target_input",
     "click_button_in_target", "execute_shell_command", "move_mouse", "mouse_click",
     "start_fs_monitoring", "stop_fs_monitoring", "terminal_run_in_new_tab",
     "get_hook_context_history", "quit_application"}

StartPayloads ==
    {Absent, Dict({}), BadPaths("str"), BadPaths("mixed")}
    \cup {WithPaths(l, o) : l \in PathLists, o \in WatchOptions}
StopPayloads ==
    {Absent, Dict({}), BadPaths("str")}
    \cup {WithPaths(l, DefaultOptions) : l \in {<<>>, <<"a">>, <<"x">>}}

PayloadsFor(command) ==
    CASE command = "simulate_keystrokes" -> {Absent, Str, Dict({}), Dict({"text"})}
      [] command = "type_in_target_input" ->
            {Absent, Dict({"text"}), Dict({"text", "target_app_bundle_id"})}
      [] command = "click_button_in_target" ->
            {Absent, Dict({}), Dict({"button_identifier"})}
      [] command = "execute_shell_command" -> {Absent, Dict({}), Dict({"command"})}
      [] command = "move_mouse" -> {Absent, Dict({"x"}), Dict({"x", "y"})}
      [] command = "mouse_click" ->
            {Absent, Dict({"x"}), Dict({"x", "y"}),
             [Dict({"x", "y", "button"}) EXCEPT !.button = "middle"],
             [Dict({"x", "y", "click_type"}) EXCEPT !.click_type = "triple_click"]}
      [] command = "start_fs_monitoring" ->
            {Absent, BadPaths("str"), WithPaths(<<"a">>, DefaultOptions),
             WithPaths(<<"x">>, DefaultOptions)}
      [] command = "stop_fs_monitoring" -> {Absent, WithPaths(<<"a">>, DefaultOptions)}
      [] command = "terminal_run_in_new_tab" -> {Absent, Dict({}), Dict({"command"})}
      [] command = "quit_application" -> {Absent, Dict({}), Dict({"bundle_id"})}
      [] OTHER -> {Absent}

\* An inbound frame: text that is not JSON, JSON that is not an object, or
\* an object; a command envelope is an object with an id and a command.
\* The id is filled in when the frame is sent.
Frame(command, payload) ==
    [shape |-> "object", id |-> NoId, command |-> command, payload |-> payload]
Garbage == [shape |-> "garbage", id |-> NoId, command |-> None, payload |-> Absent]
NonObject == [shape |-> "nonobject", id |-> NoId, command |-> None, payload |-> Absent]

\* What a client of the whole server sends: every command, with the payloads
\* that reach each branch of its handler, and frames that are no envelopes.
RouterFrames ==
    UNION {{Frame(cmd, pl) : pl \in PayloadsFor(cmd)} : cmd \in Commands \cup {"bogus"}}
    \cup {Garbage, NonObject}

\* What a client that watches one directory sends.
BridgeFrames ==
    {Frame("start_fs_monitoring", WithPaths(<<"a">>, DefaultOptions)),
     Frame("get_hook_context_history", Absent)}

\* What a client of the watch manager sends.
WatchFrames ==
    {Frame("start_fs_monitoring", pl) : pl \in StartPayloads}
    \cup {Frame("stop_fs_monitoring", pl) : pl \in StopPayloads}
    \cup {Frame("get_hook_context_history", Absent)}

WellFormed(f) == f.shape = "object" /\ IsClientId(f.id)

\* ---------------------------------------------------------------- handlers
\* What the external collaborators do during one call of handle_message:
\* r is the result of the native call the command makes (it succeeds, it
\* reports failure, it times out, it raises); bad holds the paths for which
\* Observer.schedule raises; for start_fs_monitoring r = "ok" means that
\* Observer.start succeeds.
ExtFor(command) ==
    CASE command \in {"ping", "get_hook_context_history", "stop_fs_monitoring", "bogus"} ->
            [r : {"ok"}, bad : {{}}]
      [] command = "start_fs_monitoring" -> [r : {"ok", "fail"}, bad : {{}, {"b"}}]
      [] command \in {"simulate_keystrokes", "type_in_target_input", "move_mouse",
                      "mouse_click", "get_active_application_info"} ->
            [r : {"ok", "fail", "raise"}, bad : {{}}]
      [] OTHER -> [r : {"ok", "fail", "timeout", "raise"}, bad : {{}}]

\* Every native call succeeds.
NoFailure == [r |-> "ok", bad |-> {}]

NoMsg == <<>>

\* The state a handler leaves and what it hands to the response building:
\* either it raised, or it set status, error_msg and response_data.
Done(status, error_msg, data) ==
    [raised |-> FALSE, status |-> status, error_msg |-> error_msg, data |-> data,
     obs |-> global_observer, em |-> emitters, map |-> monitored_paths_details,
     app |-> active_app_history, exec |-> hook_executed_command_history]
Ok(data) == Done("success", NoMsg, data)
Err(msg, data) == Done("error", msg, data)
\* payload.get on a payload that is no object: AttributeError
Raised(msg) == [Done("error", msg, [x \in {} |-> None]) EXCEPT !.raised = TRUE]

NoData == [x \in {} |-> None]
Message(m) == [message |-> m]

\* get_active_application_info (lines 722-729) with get_macos_active_window_info
\* (lines 335-384), which records the focus in active_app_history.
GetActiveApplicationInfo(ext) ==
    IF APPKIT_LOADED
    THEN LET info == [application_name |-> IF ext.r = "ok" THEN "app" ELSE "Unknown"]
         IN [Ok(info) EXCEPT !.app = DequeAppend(active_app_history, <<info, clock + 1>>)]
    ELSE Err(<<"macOS features (AppKit) are disabled.">>,
             [application_name |-> "N/A (macOS AppKit not available)"])

\* trigger_screen_capture (lines 731-737)
TriggerScreenCapture(ext) ==
    IF ext.r = "ok" THEN Ok([imageData |-> "png"])
    ELSE Err(<<"Screen capture failed: ", ext.r>>, NoData)

\* simulate_keystrokes (lines 739-757)
SimulateKeystrokes(payload, ext) ==
    IF Has(payload, "text") \/ payload.t = "str"
    THEN IF ext.r = "ok" THEN Ok(Message(<<"Keystrokes simulated.">>))
         ELSE Err(<<"Failed to simulate keystrokes: ", ext.r>>, NoData)
    ELSE Err(<<"Missing 'text' in payload for simulate_keystrokes">>, NoData)

\* get_focused_input_text (lines 759-776)
GetFocusedInputText(ext) ==
    IF ~AX_FEATURES_ENABLED
    THEN Err(<<"Accessibility features are not enabled on the hook.">>,
             [focusedText |-> None])
    ELSE IF ext.r = "ok" THEN Ok([focusedText |-> "text"])
         ELSE Err(<<"No focused text: ", ext.r>>,
                  [focusedText |-> None, error_message |-> <<"No focused text: ", ext.r>>])

\* type_in_target_input (lines 778-829)
TypeInTargetInput(payload, ext) ==
    IF ~AX_FEATURES_ENABLED \/ ~APPKIT_LOADED
    THEN Err(<<"Accessibility or AppKit features are not available on the hook for targeted input.">>, NoData)
    ELSE IF ~Has(payload, "text")
    THEN Err(<<"Missing 'text' in payload for type_in_target_input">>, NoData)
    ELSE IF ext.r = "ok" THEN Ok(Message(<<"Text typed">>))
    ELSE Err(<<"Failed to type: ", ext.r>>, NoData)

\* click_button_in_target (lines 831-988): status is "success" on entry and
\* is set only inside the branch that attempts the click.
ClickButtonInTarget(payload, ext) ==
    IF ~IsDict(payload) THEN Raised(<<"AttributeError: get">>)
    ELSE IF ~AX_FEATURES_ENABLED \/ ~APPKIT_LOADED
    THEN Done("success", <<"Accessibility or AppKit features are not available on the hook for targeted click.">>, NoData)
    ELSE IF ~Has(payload, "button_identifier")
    THEN Done("success", <<"Missing 'button_identifier' in payload for click_button_in_target">>, NoData)
    ELSE IF ext.r = "ok" THEN Ok(Message(<<"Successfully clicked button">>))
    ELSE Err(<<"Button could not be clicked: ", ext.r>>, NoData)

\* execute_shell_command (lines 990-1006) with execute_shell_command_sync
\* (lines 603-636), whose finally clause records the command.
ExecuteShellCommand(payload, ext) ==
    IF ~IsDict(payload) THEN Raised(<<"AttributeError: get">>)
    ELSE IF ~Has(payload, "command") THEN Err(<<"No command provided in payload">>, NoData)
    ELSE LET ring == DequeAppend(hook_executed_command_history,
                                 <<[command_type |-> "shell_sync"], clock + 1>>)
             data == [success |-> ext.r = "ok",
                      error_message |-> IF ext.r = "ok" THEN NoMsg ELSE <<"shell: ", ext.r>>]
         IN IF ext.r = "ok" THEN [Ok(data) EXCEPT !.exec = ring]
            ELSE [Err(<<"shell: ", ext.r>>, data) EXCEPT !.exec = ring]

\* move_mouse (lines 1008-1024)
MoveMouse(payload, ext) ==
    IF ~MACOS_FEATURES_ENABLED THEN Err(<<"macOS features are disabled on the hook">>, NoData)
    ELSE IF ~IsDict(payload) THEN Raised(<<"AttributeError: get">>)
    ELSE IF ~(Has(payload, "x") /\ Has(payload, "y"))
    THEN Err(<<"Missing x or y in payload">>, NoData)
    ELSE IF ext.r = "ok" THEN Ok([moved |-> TRUE])
    ELSE Err(<<"Error moving mouse: ", ext.r>>, NoData)

\* mouse_click (lines 1026-1044) with perform_mouse_click (lines 648-691)
MouseClick(payload, ext) ==
    IF ~MACOS_FEATURES_ENABLED THEN Err(<<"macOS features are disabled on the hook">>, NoData)
    ELSE IF ~IsDict(payload) THEN Raised(<<"AttributeError: get">>)
    ELSE IF ~(Has(payload, "x") /\ Has(payload, "y"))
    THEN Err(<<"Missing x or y in payload for mouse_click">>, NoData)
    ELSE IF payload.button \notin {"left", "right"}
    THEN Err(<<"Invalid mouse button specified">>, NoData)
    ELSE IF payload.click_type \notin {"click", "double_click"}
    THEN Err(<<"Invalid click type specified">>, NoData)
    ELSE IF ext.r = "ok" THEN Ok([clicked |-> TRUE])
    ELSE Err(<<"Error performing mouse click: ", ext.r>>, NoData)

\* terminal_run_in_new_tab (lines 1171-1188) with run_command_in_new_terminal_tab
\* (lines 75-103), which records the command before it runs the script.
TerminalRunInNewTab(payload, ext) ==
    IF ~MACOS_FEATURES_ENABLED THEN Err(<<"macOS features are disabled on the hook">>, NoData)
    ELSE IF ~IsDict(payload) THEN Raised(<<"AttributeError: get">>)
    ELSE IF ~Has(payload, "command")
    THEN Err(<<"Missing or invalid 'command' (string) in payload.">>, NoData)
    ELSE LET ring == DequeAppend(hook_executed_command_history,
                        <<[command_type |-> "applescript_terminal_new_tab"], clock + 1>>)
         IN IF ext.r = "ok"
            THEN [Ok(Message(<<"Command sent to new terminal tab.">>)) EXCEPT !.exec = ring]
            ELSE [Err(<<"AppleScript: ", ext.r>>, NoData) EXCEPT !.exec = ring]

\* A quit_application that keeps no record of what it ran.
QuitWithoutRecord(payload, ext) ==
    IF ~APPKIT_LOADED
    THEN Err(<<"macOS features (AppKit check implies general macOS operations) are disabled on the hook.">>, NoData)
    ELSE IF ~IsDict(payload) THEN Raised(<<"AttributeError: get">>)
    ELSE IF ~Has(payload, "bundle_id")
    THEN Err(<<"Missing 'bundle_id' in payload for quit_application.">>, NoData)
    ELSE IF ext.r = "ok" THEN Ok(Message(<<"Quit command sent">>))
    ELSE Err(<<"AppleScript to quit: ", ext.r>>, NoData)

\* quit_application (lines 1204-1222) with quit_application_applescript
\* (lines 105-163), which records the attempt whatever its outcome.
QuitApplication(payload, ext) ==
    IF ~APPKIT_LOADED
    THEN Err(<<"macOS features (AppKit check implies general macOS operations) are disabled on the hook.">>, NoData)
    ELSE IF ~IsDict(payload) THEN Raised(<<"AttributeError: get">>)
    ELSE IF ~Has(payload, "bundle_id")
    THEN Err(<<"Missing 'bundle_id' in payload for quit_application.">>, NoData)
    ELSE LET ring == DequeAppend(hook_executed_command_history,
                        <<[command_type |-> "quit_application_applescript"], clock + 1>>)
         IN IF ext.r = "ok"
            THEN [Ok(Message(<<"Quit command sent">>)) EXCEPT !.exec = ring]
            ELSE [Err(<<"AppleScript to quit: ", ext.r>>, NoData) EXCEPT !.exec = ring]

\* get_hook_context_history (lines 1190-1202)
GetHookContextHistory ==
    Ok([active_app_history |-> format_history(active_app_history),
        file_event_history |-> format_history(file_event_history),
        hook_executed_command_history |-> format_history(hook_executed_command_history)])

\* ----------------------------------------------------- watch manager (loop)
\* A manager that forgets to record the path (fault injection).
KeepDetails(map, p, payload) == map

\* monitored_paths_details[path_item] = {"recursive": ..., "alias": ...}
SetDetails(map, p, payload) ==
    [q \in DOMAIN map \cup {p} |->
        IF q = p THEN [recursive |-> payload.recursive, alias |-> payload.alias]
        ELSE map[q]]

\* Lines 1070-1078: a path is skipped when an emitter of the observer
\* already watches it.
AlreadyWatched(em, p) == em[p] > 0

\* The loop over paths_to_monitor (lines 1061-1088).  acc carries the
\* observer's emitters, the registration map, started_any and errors_starting.
RECURSIVE SchedulePaths(_, _, _, _)
SchedulePaths(list, payload, bad, acc) ==
    IF list = <<>> THEN acc
    ELSE LET p == Head(list)
             next ==
                IF p \notin ExistingPaths
                THEN [acc EXCEPT !.errors = Append(@, <<"Path does not exist: ", p>>)]
                ELSE IF AlreadyWatched(acc.em, p) THEN acc
                ELSE IF p \in bad
                THEN [acc EXCEPT !.errors = Append(@, <<"Error scheduling watch for ", p>>)]
                ELSE [acc EXCEPT !.em = [@ EXCEPT ![p] = @ + 1],
                                 !.map = SetDetails(@, p, payload),
                                 !.started_any = TRUE]
         IN SchedulePaths(Tail(list), payload, bad, next)

\* Lines 1105-1111: the response of start_fs_monitoring.
StartResponse(errors, started_any, map) ==
    IF errors # <<>>
    THEN Done("error", NoMsg, [message |-> <<"Errors encountered">>, errors |-> errors,
                               stopped_paths |-> DOMAIN map])
    ELSE IF ~started_any /\ DOMAIN map = {}
    THEN Ok(Message(<<"No new paths were monitored (possibly all already watched or invalid paths).">>))
    ELSE Ok([message |-> <<"File system monitoring updated.">>,
             monitored_paths |-> DOMAIN map])

\* Lines 1098-1103: what is left after Observer.start raised on an observer
\* whose thread had run before (join returns): the handle is dropped.
StartFailed(acc) ==
    [StartResponse(Append(acc.errors, <<"Error starting observer">>), FALSE, acc.map)
        EXCEPT !.obs = "None", !.em = NoEmitters, !.map = acc.map]

\* start_fs_monitoring (lines 1046-1118).  Observer.start succeeds or raises
\* on a fresh observer, and raises on one whose thread has died (a thread is
\* started once).  After a failed start the handler calls stop and join:
\* join raises on a thread that never ran, and that exception leaves the
\* handler with the observer stopped ("stopped": created, stop() called,
\* never run; when started later its thread exits at once).  Observer.stop
\* unschedules every watch, so the stopped observer has no emitters.
StartFsMonitoring(payload, ext) ==
    IF ~Has(payload, "paths")
    THEN Err(<<"Invalid payload for start_fs_monitoring. Expected {paths: [string], recursive?: boolean, alias?: string}.">>, NoData)
    ELSE IF payload.paths_ty # "list"
    THEN Err(<<"Invalid 'paths' in payload, expected a list of strings.">>, NoData)
    ELSE LET obs0 == IF global_observer = "None" THEN "created" ELSE global_observer
             em0 == IF global_observer = "None" THEN NoEmitters ELSE emitters
             acc == SchedulePaths(payload.paths, payload, ext.bad,
                                  [em |-> em0, map |-> monitored_paths_details,
                                   started_any |-> FALSE, errors |-> <<>>])
         IN IF acc.started_any /\ obs0 # "alive"
            THEN IF obs0 = "dead" THEN StartFailed(acc)
                 ELSE IF ext.r = "ok"
                 THEN [StartResponse(acc.errors, TRUE, acc.map)
                          EXCEPT !.obs = IF obs0 = "stopped" THEN "dead" ELSE "alive",
                                 !.em = acc.em, !.map = acc.map]
                 ELSE [Raised(<<"RuntimeError: cannot join thread before it is started">>)
                          EXCEPT !.obs = "stopped", !.em = NoEmitters, !.map = acc.map]
            ELSE [StartResponse(acc.errors, acc.started_any, acc.map)
                     EXCEPT !.obs = obs0, !.em = acc.em, !.map = acc.map]

\* paths_to_stop (lines 1121-1123) and its truth value
PathsToStopGiven(payload) ==
    Has(payload, "paths") /\ (payload.paths_ty # "list" \/ payload.paths # <<>>)
PathsToStopIsList(payload) == Has(payload, "paths") /\ payload.paths_ty # "str"

\* The branches of stop_fs_monitoring that stop the observer and join its
\* thread (lines 1135-1159).
StopsObserver(payload) ==
    /\ global_observer = "alive"
    /\ (PathsToStopGiven(payload) /\ PathsToStopIsList(payload))
        \/ ~PathsToStopGiven(payload)

\* stop_fs_monitoring (lines 1120-1169)
StopFsMonitoring(payload) ==
    IF global_observer = "alive"
    THEN IF StopsObserver(payload)
         THEN [Ok([message |-> <<"All file system monitoring stopped.">>,
                   stopped_paths |-> DOMAIN monitored_paths_details])
                  EXCEPT !.obs = "None", !.em = NoEmitters, !.map = EmptyMap]
         ELSE Ok(Message(<<"If 'paths' is provided for stop_fs_monitoring, it must be a list of strings.">>))
    ELSE IF global_observer # "None"
    THEN [Ok([message |-> <<"File system observer was not running. State cleared.">>,
              stopped_paths |-> {}])
             EXCEPT !.obs = "None", !.em = NoEmitters, !.map = EmptyMap]
    ELSE Ok([message |-> <<"File system monitoring was not active.">>,
             stopped_paths |-> {}])

\* The observer thread dies on its own (an exception in its dispatch loop):
\* the handle stays, is_alive() is false from now on.
ObserverCrash ==
    /\ global_observer = "alive"
    /\ wpc = "idle"
    /\ global_observer' = "dead"
    /\ UNCHANGED <<connVars, emitters, monitored_paths_details, ringVars, threadVars,
                   taskVars, wireVars, countVars, clock, uuids, registry_threads,
                   ring_threads, ghostVars, axVars, inserted, extVars>>

\* ------------------------------------------------------------------ router
NullId == <<"null", 0>>

\* create_response (lines 314-322)
create_response(message_id, original_command, received_payload, status, payload_data) ==
    [kind |-> "response", id |-> message_id, type |-> <<original_command, "_response">>,
     original_command |-> original_command, status |-> status,
     received_payload |-> received_payload, payload |-> payload_data]

\* create_error_response (lines 324-332)
create_error_response(message_id, original_command, received_payload, error_message) ==
    [kind |-> "response", id |-> message_id, type |-> <<original_command, "_response">>,
     original_command |-> original_command, status |-> "error",
     received_payload |-> received_payload, error_message |-> error_message]

\* A pong that echoes the payload it received (fault injection).
PongEcho(message_id, command, payload) ==
    [kind |-> "response", id |-> message_id, type |-> <<"pong">>,
     original_command |-> command, status |-> "success",
     received_payload |-> payload, payload |-> <<payload.t>>]

\* The pong envelope (lines 711-718)
Pong(message_id, command, payload) ==
    [kind |-> "response", id |-> message_id, type |-> <<"pong">>,
     original_command |-> command, status |-> "success",
     received_payload |-> payload,
     payload |-> <<"Hello from Python Hook!">>]

\* A router that loses the id of the frame (fault injection).
LostMessageId(f) == NullId

\* data.get("id"): None when the key is absent
MessageId(f) == IF f.id = NoId THEN NullId ELSE f.id

\* A chain whose every branch succeeds and does nothing (fault injection).
AcceptAnything(f, ext) == Ok(NoData)

\* The chain of elif branches of handle_message (lines 722-1227).
Handler(f, ext) ==
    CASE f.command = "get_active_application_info" -> GetActiveApplicationInfo(ext)
      [] f.command = "trigger_screen_capture" -> TriggerScreenCapture(ext)
      [] f.command = "simulate_keystrokes" -> SimulateKeystrokes(f.payload, ext)
      [] f.command = "get_focused_input_text" -> GetFocusedInputText(ext)
      [] f.command = "type_in_target_input" -> TypeInTargetInput(f.payload, ext)
      [] f.command = "click_button_in_target" -> ClickButtonInTarget(f.payload, ext)
      [] f.command = "execute_shell_command" -> ExecuteShellCommand(f.payload, ext)
      [] f.command = "move_mouse" -> MoveMouse(f.payload, ext)
      [] f.command = "mouse_click" -> MouseClick(f.payload, ext)
      [] f.command = "start_fs_monitoring" -> StartFsMonitoring(f.payload, ext)
      [] f.command = "stop_fs_monitoring" -> StopFsMonitoring(f.payload)
      [] f.command = "terminal_run_in_new_tab" -> TerminalRunInNewTab(f.payload, ext)
      [] f.command = "get_hook_context_history" -> GetHookContextHistory
      [] f.command = "quit_application" -> QuitApplication(f.payload, ext)
      [] OTHER -> Err(<<"Unknown command: ", f.command>>, NoData)

\* The external actions the handler of the frame performs or attempts, in
\* order: what it hands to the screen capture tool, the shell, osascript,
\* the event tap and the accessibility API.  perform_mouse_click moves the
\* pointer (line 651) before it looks at button and click_type.
Invokes(f) ==
    LET pl == f.payload IN
    CASE f.command = "trigger_screen_capture" -> <<"screencapture">>
      [] f.command = "simulate_keystrokes" ->
            IF Has(pl, "text") \/ pl.t = "str" THEN <<"osascript keystroke">> ELSE <<>>
      [] f.command = "type_in_target_input" ->
            IF AX_FEATURES_ENABLED /\ APPKIT_LOADED /\ Has(pl, "text")
            THEN <<"type text">> ELSE <<>>
      [] f.command = "click_button_in_target" ->
            IF AX_FEATURES_ENABLED /\ APPKIT_LOADED /\ Has(pl, "button_identifier")
            THEN <<"press button">> ELSE <<>>
      [] f.command = "execute_shell_command" ->
            IF Has(pl, "command") THEN <<"shell">> ELSE <<>>
      [] f.command = "move_mouse" ->
            IF MACOS_FEATURES_ENABLED /\ Has(pl, "x") /\ Has(pl, "y")
            THEN <<"mouse move">> ELSE <<>>
      [] f.command = "mouse_click" ->
            IF MACOS_FEATURES_ENABLED /\ Has(pl, "x") /\ Has(pl, "y")
            THEN IF pl.button \in {"left", "right"}
                    /\ pl.click_type \in {"click", "double_click"}
                 THEN <<"mouse move", "mouse click">>
                 ELSE <<"mouse move">>
            ELSE <<>>
      [] f.command = "terminal_run_in_new_tab" ->
            IF MACOS_FEATURES_ENABLED /\ Has(pl, "command")
            THEN <<"osascript terminal">> ELSE <<>>
      [] f.command = "quit_application" ->
            IF APPKIT_LOADED /\ Has(pl, "bundle_id") THEN <<"osascript quit">> ELSE <<>>
      [] OTHER -> <<>>

\* Centralized response building (lines 1230-1236)
CentralResponse(f, out) ==
    LET data == IF out.status = "error" /\ out.error_msg # NoMsg
                   /\ "error_message" \notin DOMAIN out.data
                THEN out.data @@ [error_message |-> out.error_msg]
                ELSE out.data
    IN create_response(MessageId(f), f.command, f.payload, out.status, data)

\* An exception response that drops the id of the request (fault injection).
ExceptionResponseNoId(f, out, u) ==
    create_error_response(NullId, f.command,
                          IF f.payload.t = "absent" THEN Dict({}) ELSE f.payload,
                          out.error_msg)

\* except Exception (lines 1245-1251), for a frame that is an object; u is
\* the uuid drawn for the fallback id.
ExceptionResponse(f, out, u) ==
    create_error_response(IF f.id = NoId THEN <<"error", u>> ELSE f.id,
                          f.command,
                          IF f.payload.t = "absent" THEN Dict({}) ELSE f.payload,
                          out.error_msg)

\* An error response that reuses one id (fault injection).
JsonErrorResponseSameId(u) ==
    create_error_response(<<"error", 0>>, "unknown", Dict({}), <<"Invalid JSON format">>)

\* except json.JSONDecodeError (lines 1240-1244)
JsonErrorResponse(u) ==
    create_error_response(<<"error", u>>, "unknown", Dict({}), <<"Invalid JSON format">>)

\* A send that puts the envelope ahead of those already written.
SendAhead(c, e) == sent' = [sent EXCEPT ![c] = <<e>> \o @]

\* websocket.send of a response envelope on an open connection
Send(c, env) == sent' = [sent EXCEPT ![c] = Append(@, env)]

\* A frame that json.loads turns into a value without .get: the
\* AttributeError is raised again inside the except clause (line 1248),
\* leaves handle_message and ends register's loop (lines 1262-1265); no
\* response is sent and the server closes the connection.
EscapesHandleMessage(f) == f.shape = "nonobject"

\* What the handler appended to a ring: the entry at the end of the ring it
\* leaves, when it wrote the ring at all.
Appended(ring, written) == IF written # ring THEN <<Last(written)>> ELSE <<>>

\* The handler called time.time() for a history record.
Recorded(out) ==
    out.app # active_app_history \/ out.exec # hook_executed_command_history

\* register's loop takes the next frame of connection c and handle_message
\* handles it, up to its send.  stop_fs_monitoring joins the observer
\* thread, so it completes only once that thread has finished its callback.
\* Every coroutine runs on the loop.
AlwaysFree(c, f) == TRUE

\* The loop's thread is free to run handle_message for frame f of
\* connection c: handle_message awaits nothing before it sends its
\* response, so while a handler waits for an external program the thread
\* is inside that handler and only it can go on.
LoopFree(c, f) == call.c = 0 \/ (call.c = c /\ call.f = f)

HandleMessage(c, f, ext) ==
    /\ conn[c] = "open"
    /\ LoopFree(c, f)
    /\ call' = NoCall
    /\ nmsgs' = nmsgs + 1
    /\ received' = [received EXCEPT ![c] = Append(@, f)]
    /\ IF f.shape = "garbage"
       THEN /\ Send(c, JsonErrorResponse(uuids + 1))
            /\ uuids' = uuids + 1
            /\ UNCHANGED <<connVars, watchVars, ringVars, ring_threads, registry_threads,
                           clock, inserted, invoked>>
       ELSE IF EscapesHandleMessage(f)
       THEN /\ conn' = [conn EXCEPT ![c] = "aborted"]
            /\ connected_clients' = unregister(connected_clients, c)
            /\ registry_threads' = registry_threads \cup {"loop"}
            /\ UNCHANGED <<watchVars, ringVars, ring_threads, sent, uuids, clock, inserted,
                           invoked>>
       ELSE IF f.command = "ping"
       THEN /\ Send(c, Pong(MessageId(f), f.command, f.payload))
            /\ UNCHANGED <<connVars, watchVars, ringVars, ring_threads, registry_threads,
                           uuids, clock, inserted, invoked>>
       ELSE \E out \in {Handler(f, ext)} :
               /\ f.command = "stop_fs_monitoring" /\ StopsObserver(f.payload)
                    => wpc = "idle"
               /\ global_observer' = out.obs
               /\ emitters' = out.em
               /\ monitored_paths_details' = out.map
               /\ active_app_history' = out.app
               /\ hook_executed_command_history' = out.exec
               /\ inserted' = [inserted EXCEPT
                     !.app = @ \o Appended(active_app_history, out.app),
                     !.exec = @ \o Appended(hook_executed_command_history, out.exec)]
               /\ invoked' = invoked \o Invokes(f)
               /\ ring_threads' = IF Recorded(out) THEN ring_threads \cup {"loop"}
                                  ELSE ring_threads
               /\ clock' = IF Recorded(out) THEN clock + 1 ELSE clock
               /\ IF out.raised
                  THEN /\ Send(c, ExceptionResponse(f, out, uuids + 1))
                       /\ uuids' = uuids + 1
                  ELSE /\ Send(c, CentralResponse(f, out))
                       /\ UNCHANGED uuids
               /\ UNCHANGED <<connVars, file_event_history, registry_threads>>
    /\ UNCHANGED <<threadVars, taskVars, countVars, ghostVars, axVars>>

\* ----------------------------------------------------------- specifications
\* The session and watcher steps of a server with the connections of cs.
Sessions(cs) ==
    \/ \E c \in cs : Register(c)
    \/ \E c \in cs : TransportClosed(c)
    \/ \E c \in cs : SessionEnd(c)

Bridge ==
    \/ WatcherAppend
    \/ BroadcastStart
    \/ BroadcastStep

\* The router: two connections and every command a client can send.
Next ==
    \/ Sessions(Clients)
    \/ /\ nmsgs < MaxMsgs
       /\ \E c \in Clients, f \in RouterFrames, id \in {ClientId(nmsgs + 1), NoId} :
            \E ext \in ExtFor(f.command) : HandleMessage(c, [f EXCEPT !.id = id], ext)
    \/ ObserverCrash

Spec == Init /\ [][Next]_vars

\* The watcher's bridge into the loop: clients that start the monitoring of
\* one directory and read the history, while changes are detected under
\* it.  The observer starts and keeps running.
BridgeNext ==
    \/ Sessions(Clients)
    \/ /\ nmsgs < MaxBridgeMsgs
       /\ \E c \in Clients, f \in BridgeFrames :
            HandleMessage(c, [f EXCEPT !.id = ClientId(nmsgs + 1)], NoFailure)
    \/ /\ ndetected < MaxEvents
       /\ \E ch \in Changes : Detect(ch)
    \/ Bridge

BridgeInit == Init /\ features = "ax"

BridgeSpec == BridgeInit /\ [][BridgeNext]_vars

\* The watch manager: one client that sends the filesystem-monitoring
\* commands, with every shape of payload, to an observer that may fail.
WatchNext ==
    \/ Sessions({1})
    \/ /\ nmsgs < MaxWatchMsgs
       /\ \E f \in WatchFrames :
            \E ext \in ExtFor(f.command) :
                HandleMessage(1, [f EXCEPT !.id = ClientId(nmsgs + 1)], ext)
    \/ ObserverCrash

WatchSpec == BridgeInit /\ [][WatchNext]_vars

\* A client that fills the history rings and reads them: the focus ring with
\* get_active_application_info, the command ring with execute_shell_command,
\* the file ring with files created under the watched directory "a".  A
\* handler writes its own ring only, so the rings are filled one after the
\* other: focus, then commands, then file events; a file is created once the
\* broadcast of the previous one is over (with one connection it is over
\* after its first send).
FocusFrame == Frame("get_active_application_info", Absent)
ShellFrame == Frame("execute_shell_command", Dict({"command"}))
WatchFrame == Frame("start_fs_monitoring", WithPaths(<<"a">>, DefaultOptions))
HistoryFrame == Frame("get_hook_context_history", Absent)
RingFrames == {FocusFrame, ShellFrame, WatchFrame, HistoryFrame}

NewFile == [event_type |-> "created", is_directory |-> FALSE, src_path |-> "a"]

RingOps == Len(inserted.app) + Len(inserted.exec) + ndetected
HistoryCalls ==
    Cardinality({i \in DOMAIN received[1] :
                    received[1][i].command = "get_hook_context_history"})

RingFrameAllowed(f) ==
    CASE f = FocusFrame ->
            RingOps < MaxRingOps /\ inserted.exec = <<>> /\ ndetected = 0
      [] f = ShellFrame -> RingOps < MaxRingOps /\ ndetected = 0
      [] f = WatchFrame -> global_observer = "None"
      [] f = HistoryFrame -> HistoryCalls < MaxHistoryCalls

RingNext ==
    \/ Register(1)
    \/ \E f \in RingFrames :
          /\ RingFrameAllowed(f)
          /\ HandleMessage(1, [f EXCEPT !.id = ClientId(nmsgs + 1)], NoFailure)
    \/ /\ RingOps < MaxRingOps
       /\ scheduled = <<>>
       /\ Detect(NewFile)
    \/ WatcherAppend
    \/ BroadcastStart

RingSpec == BridgeInit /\ [][RingNext]_vars

\* ------------------------------------------------- blocking external calls
\* The commands whose handler runs an external program with subprocess.run
\* and waits for it on the loop's thread.  A call is pending from the moment
\* the handler starts the program until subprocess.run returns or raises
\* TimeoutExpired; nothing else runs on the loop meanwhile.
MaxCalls == 2

\* The timeout, in seconds, that the handler of the command passes to
\* subprocess.run; 0 when it passes none.
Timeout(command) ==
    CASE command = "trigger_screen_capture" -> 10
      [] command = "execute_shell_command" -> 30
      [] command = "terminal_run_in_new_tab" -> 15
      [] command = "quit_application" -> 10
      [] command = "simulate_keystrokes" -> 0
      [] OTHER -> 0

CallFrames ==
    {Frame("trigger_screen_capture", Absent),
     Frame("execute_shell_command", Dict({"command"})),
     Frame("terminal_run_in_new_tab", Dict({"command"})),
     Frame("quit_application", Dict({"bundle_id"})),
     Frame("simulate_keystrokes", Dict({"text"}))}

\* handle_message up to subprocess.run: the external program is started.
BeginCall(c, f) ==
    /\ conn[c] = "open"
    /\ call.c = 0
    /\ nmsgs < MaxCalls
    /\ call' = [c |-> c, f |-> f]
    /\ UNCHANGED <<connVars, watchVars, ringVars, threadVars, taskVars, wireVars,
                   countVars, clock, uuids, registry_threads, ring_threads, ghostVars,
                   axVars, inserted, invoked>>

\* The external program ends by itself, with success or with failure, and
\* handle_message runs to its end.
CollaboratorReturns ==
    /\ call.c # 0
    /\ \E r \in {"ok", "fail"} : HandleMessage(call.c, call.f, [r |-> r, bad |-> {}])

\* subprocess.run raises TimeoutExpired, which only a call that was given a
\* timeout can do, and handle_message runs to its end.
TimeoutExpired ==
    /\ call.c # 0
    /\ Timeout(call.f.command) > 0
    /\ HandleMessage(call.c, call.f, [r |-> "timeout", bad |-> {}])

\* One client whose connection stays up while its command is served.
CallNext ==
    \/ call.c = 0 /\ Sessions({1})
    \/ \E f \in CallFrames : BeginCall(1, [f EXCEPT !.id = ClientId(nmsgs + 1)])
    \/ CollaboratorReturns
    \/ TimeoutExpired

CallSpec == BridgeInit /\ [][CallNext]_vars

\* The external program may never end; a timeout that was set does expire.
CallLive == CallSpec /\ WF_vars(TimeoutExpired)

\* Two clients, one of which may be waiting for an external program while
\* the other has a command to send.
SerialFrames == BridgeFrames \cup {Frame("ping", Absent)}

SerialNext ==
    \/ call.c = 0 /\ Sessions(Clients)
    \/ \E c \in Clients, f \in CallFrames :
            BeginCall(c, [f EXCEPT !.id = ClientId(nmsgs + 1)])
    \/ CollaboratorReturns
    \/ TimeoutExpired
    \/ /\ nmsgs < MaxCalls
       /\ \E c \in Clients, f \in SerialFrames :
            HandleMessage(c, [f EXCEPT !.id = ClientId(nmsgs + 1)], NoFailure)

SerialSpec == BridgeInit /\ [][SerialNext]_vars

\* ------------------------------------------------- stopping the monitoring
\* One client that starts and stops the monitoring of one directory while
\* changes are detected under it and broadcasts wait for the loop.
MaxStopMsgs == 3

StopFrames ==
    {Frame("start_fs_monitoring", WithPaths(<<"a">>, DefaultOptions)),
     Frame("stop_fs_monitoring", Absent)}

StopNext ==
    \/ Sessions({1})
    \/ /\ nmsgs < MaxStopMsgs
       /\ \E f \in StopFrames :
            HandleMessage(1, [f EXCEPT !.id = ClientId(nmsgs + 1)], NoFailure)
    \/ /\ ndetected < MaxEvents
       /\ \E ch \in Changes : Detect(ch)
    \/ WatcherAppend
    \/ BroadcastStart

StopSpec == BridgeInit /\ [][StopNext]_vars

\* ------------------------------------------------- accessibility search
\* The elements of a tree are numbered 1..MaxNodes, the root is 1; None
\* (no element, a null child, "not found") is 0.
Nodes == 1..MaxNodes
NoElement == 0
\* target_role: click_button_in_target passes "AXButton"; None filters nothing.
NoRole == ""
Roles == {"AXButton", "AXGroup"}

\* Strings are sequences of characters; the letters that have two cases.
CasePairs == {<<"O", "o">>, <<"K", "k">>, <<"N", "n">>}
\* The button_identifier of the request, and what the elements are labelled.
Identifier == <<"O", "k">>
TitleHit == <<"O", "k">>
DescriptionHit == <<"!", "O", "K">>
Miss == <<"N", "o">>
Null == <<>>

\* What an element looks like when every attribute can be read: its role and
\* which of its title and description contains the identifier.
NodeKinds == [role : Roles, text : {"title", "description", "none"}]

\* One attribute read that does not deliver: the call returns an error code,
\* or succeeds with a null value, or the children list holds a null child.
\* node = 0: every read delivers.
Attributes == {"AXRole", "AXTitle", "AXDescription", "AXChildren"}
Failures ==
    {[node |-> NoElement, attr |-> "AXRole", kind |-> "error"]}
    \cup [node : Nodes, attr : Attributes, kind : {"error", "null"}]
    \cup [node : Nodes, attr : {"AXChildren"}, kind : {"nullchild"}]

\* The trees: parent[n] is the parent of n (0: n is not in the tree), the
\* children of an element are listed in ascending or descending order, and
\* an only child is delivered in a list or as a bare element.
Parents == {p \in [2..MaxNodes -> 0..(MaxNodes - 1)] : \A n \in 2..MaxNodes : p[n] < n}
AXInputs ==
    [nodes : [Nodes -> NodeKinds], parent : Parents, reversed : BOOLEAN,
     single : BOOLEAN, fail : Failures, identifier_text : {Identifier},
     target_role : {"AXButton", NoRole}]

Fails(in, n, attr, kind) ==
    in.fail.node = n /\ in.fail.attr = attr /\ in.fail.kind = kind

\* The children of element n, in the order the tree lists them.
ChildList(in, n) ==
    LET order == [i \in 1..MaxNodes |-> IF in.reversed THEN MaxNodes + 1 - i ELSE i]
        kids == SelectSeq(order, LAMBDA m : m >= 2 /\ in.parent[m] = n)
    IN IF Fails(in, n, "AXChildren", "nullchild") THEN <<NoElement>> \o kids ELSE kids

\* HIServices.AXUIElementCopyAttributeValue(element, attribute, NULL): the
\* value and the error code (0 on success).
AXUIElementCopyAttributeValue(in, n, attr) ==
    LET err == IF Fails(in, n, attr, "error") THEN -25212 ELSE 0
        lost == Fails(in, n, attr, "error") \/ Fails(in, n, attr, "null")
    IN CASE attr = "AXRole" ->
              [ref |-> IF lost THEN NoRole ELSE in.nodes[n].role, err |-> err]
         [] attr = "AXTitle" ->
              [ref |-> IF lost THEN Null
                       ELSE IF in.nodes[n].text = "title" THEN TitleHit ELSE Miss,
               err |-> err]
         [] attr = "AXDescription" ->
              [ref |-> IF lost THEN Null
                       ELSE IF in.nodes[n].text = "description" THEN DescriptionHit
                       ELSE Miss,
               err |-> err]
         [] attr = "AXChildren" ->
              [ref |-> IF lost THEN Null ELSE ChildList(in, n),
               list |-> ~(in.single /\ ~lost /\ Len(ChildList(in, n)) = 1),
               err |-> err]

\* A str.lower that changes nothing (fault injection).
SameCase(str) == str

\* str.lower()
Lower(str) ==
    [i \in DOMAIN str |->
        IF \E p \in CasePairs : p[1] = str[i]
        THEN (CHOOSE p \in CasePairs : p[1] = str[i])[2]
        ELSE str[i]]

\* needle in hay
Contains(hay, needle) ==
    \E i \in 0..(Len(hay) - Len(needle)) :
        SubSeq(hay, i + 1, i + Len(needle)) = needle

\* A filter that lets every role pass (fault injection).
NeverExcludes(target_role, role) == FALSE

\* line 184: target_role and (err_role != 0 or role_ref != target_role)
RoleExcludes(target_role, role) ==
    target_role # NoRole /\ (role.err # 0 \/ role.ref # target_role)

\* A test that takes a text it cannot read for a match (fault injection).
TextMatchesOrUnread(text, identifier_text) ==
    \/ text.err # 0
    \/ text.ref = Null
    \/ Contains(Lower(text.ref), Lower(identifier_text))

\* lines 191 and 196: err == 0 and ref and isinstance(ref, str) and
\* identifier_text.lower() in ref.lower()
TextMatches(text, identifier_text) ==
    /\ text.err = 0
    /\ text.ref # Null
    /\ Contains(Lower(text.ref), Lower(identifier_text))

IsElement(element) == element # NoElement

RECURSIVE _find_ax_element_recursive(_, _, _, _)
RECURSIVE FindInChildren(_, _, _, _, _)

\* The for loop of lines 207-211 from the i-th child on.
FindInChildren(in, children_ref, i, identifier_text, target_role) ==
    IF i > Len(children_ref) THEN NoElement
    ELSE LET found_element ==
                IF IsElement(children_ref[i])
                THEN _find_ax_element_recursive(in, children_ref[i], identifier_text,
                                                target_role)
                ELSE NoElement
         IN IF IsElement(found_element) THEN found_element
            ELSE FindInChildren(in, children_ref, i + 1, identifier_text, target_role)

\* _find_ax_element_recursive (lines 169-218) on the tree of in
_find_ax_element_recursive(in, current_element, identifier_text, target_role) ==
    IF ~IsElement(current_element) THEN NoElement
    ELSE LET role == AXUIElementCopyAttributeValue(in, current_element, "AXRole")
             title == AXUIElementCopyAttributeValue(in, current_element, "AXTitle")
             description ==
                AXUIElementCopyAttributeValue(in, current_element, "AXDescription")
             children == AXUIElementCopyAttributeValue(in, current_element, "AXChildren")
         IN IF ~RoleExcludes(target_role, role) /\ TextMatches(title, identifier_text)
            THEN current_element
            ELSE IF ~RoleExcludes(target_role, role)
                    /\ TextMatches(description, identifier_text)
            THEN current_element
            ELSE IF children.err = 0 /\ children.ref # Null
            THEN IF children.list
                 THEN FindInChildren(in, children.ref, 1, identifier_text, target_role)
                 ELSE _find_ax_element_recursive(in, children.ref[1], identifier_text,
                                                 target_role)
            ELSE NoElement

\* click_button_in_target, line 941: the search from the application element.
FindAXElement ==
    /\ ax_found = NotSearched
    /\ ax_found' = _find_ax_element_recursive(ax_input, 1, ax_input.identifier_text,
                                              ax_input.target_role)
    /\ UNCHANGED <<connVars, watchVars, ringVars, threadVars, taskVars, wireVars,
                   countVars, ghostVars, clock, uuids, registry_threads, ring_threads,
                   inserted, ax_input, ax_press, extVars>>

FindInit ==
    /\ ServerInit
    /\ features = "ax"
    /\ ax_input \in AXInputs
    /\ ax_found = NotSearched
    /\ ax_press = NotPressed

FindNext == FindAXElement

FindSpec == FindInit /\ [][FindNext]_vars

\* ------------------------------------------------- pressing the button found
\* The read of the AXEnabled attribute of the element found, as line 951
\* unpacks it: the value (true, false, or none) and the error code.
EnabledReads ==
    {[ref |-> "true", err |-> 0], [ref |-> "false", err |-> 0],
     [ref |-> "none", err |-> 0], [ref |-> "none", err |-> -25212]}

\* What AXUIElementPerformAction does: it succeeds, returns an error code,
\* or raises.
PressResults == {"ok", "fail", "raise"}

\* A test that takes every element for enabled (fault injection).
AssumeEnabled(read) == TRUE

\* line 955, negated: is_enabled_ref is truthy
IsEnabled(read) == read.ref = "true"

\* click_button_in_target from the result of the search to the status
\* (lines 947-980): pressed is the element on which the press action was
\* performed, none if it was not performed.
PressFound(button_to_click, read, press) ==
    IF ~IsElement(button_to_click)
    THEN [pressed |-> NoElement, status |-> "error", read |-> read,
          error_msg |-> "not found"]
    ELSE IF read.err # 0
    THEN [pressed |-> NoElement, status |-> "error", read |-> read,
          error_msg |-> "Could not determine if button is enabled. Click aborted."]
    ELSE IF ~IsEnabled(read)
    THEN [pressed |-> NoElement, status |-> "error", read |-> read,
          error_msg |-> "was found but is disabled. Click aborted."]
    ELSE IF press = "ok"
    THEN [pressed |-> button_to_click, status |-> "success", read |-> read,
          error_msg |-> ""]
    ELSE [pressed |-> button_to_click, status |-> "error", read |-> read,
          error_msg |-> IF press = "fail" THEN "failed to perform press action"
                        ELSE "Accessibility interaction error for click"]

\* click_button_in_target after its search, which it makes with the role
\* AXButton.
ClickFoundButton(read, press) ==
    /\ ax_found # NotSearched
    /\ ax_press = NotPressed
    /\ ax_input.target_role = "AXButton"
    /\ ax_press' = PressFound(ax_found, read, press)
    /\ UNCHANGED <<connVars, watchVars, ringVars, threadVars, taskVars, wireVars,
                   countVars, ghostVars, clock, uuids, registry_threads, ring_threads,
                   inserted, ax_input, ax_found, extVars>>

\* The trees searched for a button, with at most a role that cannot be read.
ClickInputs ==
    {in \in AXInputs : in.target_role = "AXButton" /\ in.fail.attr = "AXRole"}

ClickInit ==
    /\ ServerInit
    /\ features = "ax"
    /\ ax_input \in ClickInputs
    /\ ax_found = NotSearched
    /\ ax_press = NotPressed

ClickNext ==
    \/ FindAXElement
    \/ \E read \in EnabledReads, press \in PressResults : ClickFoundButton(read, press)

ClickSpec == ClickInit /\ [][ClickNext]_vars

\* ------------------------------------------------------------------ claims
Responses(c) == SelectSeq(sent[c], LAMBDA e : e.kind = "response")
IsBroadcast(e) == e.kind = "broadcast"
IsHistoryResponse(e) ==
    /\ e.kind = "response"
    /\ e.original_command = "get_hook_context_history"
    /\ e.status = "success"

\* The step handled a frame of connection c.
Handled(c) == Len(received'[c]) = Len(received[c]) + 1

\* C1: on every connection whose frames were all well-formed command
\* envelopes (the ids are pairwise distinct), the responses sent are as many
\* as the frames handled and the i-th response carries the id of the i-th
\* frame: one response per command, on its own connection, each id echoed.
C1_OneResponsePerCommand ==
    \A c \in Clients :
        (\A i \in DOMAIN received[c] : WellFormed(received[c][i]))
        => /\ Len(Responses(c)) = Len(received[c])
           /\ \A i \in DOMAIN received[c] : Responses(c)[i].id = received[c][i].id

\* Both connections have had a well-formed command answered, one of them
\* by the exception path.
C1_Witness ==
    /\ \A c \in Clients :
        /\ Len(received[c]) = 1
        /\ WellFormed(received[c][1])
        /\ Len(Responses(c)) = 1
        /\ Responses(c)[1].id = received[c][1].id
    /\ \E c \in Clients : "error_message" \in DOMAIN Responses(c)[1]

\* C2: a connection on which frames were handled and whose transport has
\* not failed is still open and still in the registry.
C2_FrameNeverClosesConnection ==
    \A c \in Clients :
        (received[c] # <<>> /\ conn[c] \notin {"closed", "done"})
        => (conn[c] = "open" /\ c \in connected_clients)

\* C3: once the watcher thread is back in the observer's loop, every call of
\* send_event_to_clients has appended one record to file_event_history,
\* whatever the number of connections registered.  (The claim speaks of
\* every detected change; this is its part for the changes the handler
\* forwards.)
C3_OneRecordPerChange == wpc = "idle" => nappended = nforwarded

\* No broadcast is waiting to start and none is in progress.
Quiescent == scheduled = <<>> /\ running = {}

\* The number of file_system_event envelopes with this id written to c.
Copies(c, id) ==
    Cardinality({i \in DOMAIN sent[c] : IsBroadcast(sent[c][i]) /\ sent[c][i].id = id})

\* The broadcast of the envelope id has run to completion: it took a
\* snapshot of the registry and every connection of the snapshot that is
\* open has one copy.
Delivered(id) ==
    \E s \in snapshots :
        /\ s.id = id
        /\ \A c \in s.clients : conn[c] = "open" => Copies(c, id) = 1

C5_WatcherOffRegistry == "watcher" \notin registry_threads

\* C6: the watcher thread never appends to a history ring.
C6_RingsOnLoopOnly == "watcher" \notin ring_threads

\* C7: a get_hook_context_history response written to a connection after a
\* file_system_event envelope was written to it lists that event (fewer
\* than ten file events happen in a run, so none is evicted).
C7_HistoryNotLaterThanBroadcast ==
    \A c \in Clients : \A i, j \in DOMAIN sent[c] :
        (i < j /\ IsBroadcast(sent[c][i]) /\ IsHistoryResponse(sent[c][j]))
        => \E k \in DOMAIN sent[c][j].payload.file_event_history :
              sent[c][j].payload.file_event_history[k].timestamp
                = sent[c][i].payload.timestamp

\* A stop_fs_monitoring whose paths are absent, an empty list or a
\* non-empty list.
StopAll(f) ==
    /\ f.command = "stop_fs_monitoring"
    /\ ~Has(f.payload, "paths") \/ f.payload.paths_ty = "list"

\* C8: every step that handles such a stop leaves no observer and an empty
\* registration map.
C8_StopClearsEverything ==
    [][\A c \in Clients :
        (Handled(c) /\ StopAll(Last(received'[c])))
        => (global_observer' = "None" /\ monitored_paths_details' = EmptyMap)]_vars

\* The response reports that Observer.start raised: the error is in the
\* errors of the payload, or it is the exception that join raised after it.
StartFailureReported(e) ==
    /\ e.kind = "response"
    /\ e.original_command = "start_fs_monitoring"
    /\ IF "error_message" \in DOMAIN e
       THEN e.error_message = <<"RuntimeError: cannot join thread before it is started">>
       ELSE /\ "errors" \in DOMAIN e.payload
            /\ \E i \in DOMAIN e.payload.errors :
                  e.payload.errors[i] = <<"Error starting observer">>

\* C9: every step that handles a start_fs_monitoring during which the
\* observer fails to start leaves no observer handle and the registration
\* map as it was before the call.
C9_FailedStartRolledBack ==
    [][\A c \in Clients :
        (Handled(c) /\ StartFailureReported(Last(sent'[c])))
        => (global_observer' = "None"
            /\ monitored_paths_details' = monitored_paths_details)]_vars

\* A start_fs_monitoring with a non-empty list of paths that are all
\* registered.
StartsRegistered(f) ==
    /\ f.command = "start_fs_monitoring"
    /\ Has(f.payload, "paths")
    /\ f.payload.paths_ty = "list"
    /\ f.payload.paths # <<>>
    /\ \A i \in DOMAIN f.payload.paths : f.payload.paths[i] \in DOMAIN monitored_paths_details

\* C10: every step that handles such a start leaves the registration map
\* and the watches of the observer as they were.
C10_StartIdempotent ==
    [][\A c \in Clients :
        (Handled(c) /\ StartsRegistered(Last(received'[c])))
        => (monitored_paths_details' = monitored_paths_details
            /\ emitters' = emitters)]_vars

\* A start_fs_monitoring with a list of paths.
StartsList(f) ==
    /\ f.command = "start_fs_monitoring"
    /\ Has(f.payload, "paths")
    /\ f.payload.paths_ty = "list"

\* The path is in the list of the frame.
Lists(f, p) == \E i \in DOMAIN f.payload.paths : f.payload.paths[i] = p

\* The response of a start_fs_monitoring reports the path as missing.
ReportsMissing(e, p) ==
    /\ e.status = "error"
    /\ "payload" \in DOMAIN e
    /\ "errors" \in DOMAIN e.payload
    /\ \E i \in DOMAIN e.payload.errors :
          e.payload.errors[i] = <<"Path does not exist: ", p>>

\* C11: every step that handles a start_fs_monitoring whose only path is
\* the nonexistent "x" answers with status error and names the path, leaves
\* the registration map and the watches as they were, and starts no
\* observer thread.
C11_MissingPathRefused ==
    [][\A c \in Clients :
        (Handled(c) /\ StartsList(Last(received'[c]))
                    /\ Last(received'[c]).payload.paths = <<"x">>)
        => /\ ReportsMissing(Last(sent'[c]), "x")
           /\ monitored_paths_details' = monitored_paths_details
           /\ emitters' = emitters
           /\ global_observer' \in {global_observer, "created"}]_vars

\* The first frame handled asked to monitor only "x": the answer is an
\* error that names it, nothing is registered and the observer, though
\* created, was not started.
C11_Witness ==
    /\ Len(received[1]) = 1
    /\ StartsList(received[1][1])
    /\ received[1][1].payload.paths = <<"x">>
    /\ ReportsMissing(sent[1][1], "x")
    /\ monitored_paths_details = EmptyMap
    /\ global_observer = "created"

\* The response reports that a call of the observer failed: the exception
\* path answered, or an error other than a missing path is listed.
ObserverFailureReported(e) ==
    \/ "error_message" \in DOMAIN e
    \/ /\ "errors" \in DOMAIN e.payload
       /\ \E i \in DOMAIN e.payload.errors :
             e.payload.errors[i][1] # "Path does not exist: "

\* C12: every step that handles a start_fs_monitoring listing the
\* nonexistent "x" together with an existing path that is not registered,
\* and during which no call of the observer fails, reports "x", registers
\* every existing path of the list and leaves the observer running.
C12_MixedStartRegistersExisting ==
    [][\A c \in Clients :
        LET f == Last(received'[c]) IN
        (/\ Handled(c) /\ StartsList(f) /\ Lists(f, "x")
         /\ \E p \in ExistingPaths \ DOMAIN monitored_paths_details : Lists(f, p)
         /\ ~ObserverFailureReported(Last(sent'[c])))
        => /\ ReportsMissing(Last(sent'[c]), "x")
           /\ \A p \in ExistingPaths : Lists(f, p) => p \in DOMAIN monitored_paths_details'
           /\ global_observer' = "alive"]_vars

C19_ErrorMessageIffError ==
    \A c \in Clients : \A i \in DOMAIN sent[c] :
        sent[c][i].kind = "response"
        => ("error_message" \in DOMAIN sent[c][i] <=> sent[c][i].status = "error")

\* C20: every command envelope that came without an id was answered, and
\* its response carries an id that is not null.
C20_MissingIdSynthesized ==
    \A c \in Clients : \A i \in DOMAIN received[c] :
        (received[c][i].shape = "object" /\ received[c][i].id = NoId)
        => /\ i <= Len(Responses(c))
           /\ Responses(c)[i].id # NullId

Min(a, b) == IF a <= b THEN a ELSE b
\* The last n entries of a sequence, in order.
LastN(seq, n) == SubSeq(seq, Len(seq) - n + 1, Len(seq))
RingHolds(ring, ins) ==
    /\ Len(ring) <= MAX_HISTORY_ITEMS
    /\ ring = LastN(ins, Min(Len(ins), MAX_HISTORY_ITEMS))

\* C14: each of the three history rings holds at most MAX_HISTORY_ITEMS
\* entries, and they are the last min(K, MAX_HISTORY_ITEMS) of the K entries
\* appended to it so far, in the order of their insertion.
C14_RingsKeepLastTen ==
    /\ RingHolds(active_app_history, inserted.app)
    /\ RingHolds(file_event_history, inserted.file)
    /\ RingHolds(hook_executed_command_history, inserted.exec)

\* The watcher has appended more entries than the file ring holds: the ring
\* is full and its oldest entry is the second ever appended.
C14_Witness ==
    /\ Len(inserted.file) > MAX_HISTORY_ITEMS
    /\ Len(file_event_history) = MAX_HISTORY_ITEMS
    /\ file_event_history[1] = inserted.file[Len(inserted.file) - MAX_HISTORY_ITEMS + 1]
    /\ file_event_history[1] # inserted.file[1]

\* The entries of a ring as item/timestamp pairs, in the ring's order.
Pairs(ring) == [i \in DOMAIN ring |-> [item |-> ring[i][1], timestamp |-> ring[i][2]]]
\* The ring's content, as the entries appended to it say.
Kept(ins) == LastN(ins, Min(Len(ins), MAX_HISTORY_ITEMS))
OldestFirst(list) ==
    \A i, j \in DOMAIN list : i < j => list[i].timestamp < list[j].timestamp
IsHistoryFrame(f) == f.shape = "object" /\ f.command = "get_hook_context_history"

\* C15: every step that handles get_hook_context_history answers with the
\* content of the three rings, each as the item/timestamp pairs of the
\* entries it keeps, oldest first, and leaves the rings, the registration
\* map, the observer and the connection registry as they were; when the
\* frame before it on the connection was the same command and the rings
\* still hold what that answer listed, the two answers have the same
\* content.
C15_HistoryReadsRings ==
    [][\A c \in Clients :
        (Handled(c) /\ IsHistoryFrame(Last(received'[c])))
        => LET e == Last(sent'[c]) IN
           /\ e.kind = "response" /\ e.status = "success"
           /\ e.payload.active_app_history = Pairs(Kept(inserted.app))
           /\ e.payload.file_event_history = Pairs(Kept(inserted.file))
           /\ e.payload.hook_executed_command_history = Pairs(Kept(inserted.exec))
           /\ OldestFirst(e.payload.active_app_history)
           /\ OldestFirst(e.payload.file_event_history)
           /\ OldestFirst(e.payload.hook_executed_command_history)
           /\ UNCHANGED <<ringVars, watchVars, connected_clients, inserted>>
           /\ (/\ received[c] # <<>>
               /\ IsHistoryFrame(Last(received[c]))
               /\ Responses(c) # <<>>
               /\ Last(Responses(c)).payload.file_event_history
                     = Pairs(file_event_history))
              => e.payload = Last(Responses(c)).payload]_vars

\* The last two frames handled were get_hook_context_history; both answers
\* list the same content: a focus record, a command, and two file events.
C15_Witness ==
    /\ Len(received[1]) >= 2
    /\ IsHistoryFrame(received[1][Len(received[1])])
    /\ IsHistoryFrame(received[1][Len(received[1]) - 1])
    /\ LET rs == Responses(1) IN
       /\ Len(rs) >= 2
       /\ rs[Len(rs)].payload = rs[Len(rs) - 1].payload
       /\ Len(rs[Len(rs)].payload.active_app_history) = 1
       /\ Len(rs[Len(rs)].payload.hook_executed_command_history) = 1
       /\ Len(rs[Len(rs)].payload.file_event_history) = 2

\* ---- the search, stated on the tree
SameLetter(a, b) == a = b \/ <<a, b>> \in CasePairs \/ <<b, a>> \in CasePairs
ContainsIgnoringCase(hay, needle) ==
    \E i \in 0..(Len(hay) - Len(needle)) :
        \A k \in 1..Len(needle) : SameLetter(hay[i + k], needle[k])
Readable(in, n, attr) == in.fail.node # n \/ in.fail.attr # attr \/ in.fail.kind = "nullchild"
TitleOf(in, n) == IF in.nodes[n].text = "title" THEN TitleHit ELSE Miss
DescriptionOf(in, n) == IF in.nodes[n].text = "description" THEN DescriptionHit ELSE Miss
HasRole(in, n, role) == Readable(in, n, "AXRole") /\ in.nodes[n].role = role
\* The match predicate: the role is the target role when one is given, and
\* the title or the description contains the identifier, whatever the case.
Satisfies(in, n) ==
    /\ in.target_role # NoRole => HasRole(in, n, in.target_role)
    /\ \/ /\ Readable(in, n, "AXTitle")
          /\ ContainsIgnoringCase(TitleOf(in, n), in.identifier_text)
       \/ /\ Readable(in, n, "AXDescription")
          /\ ContainsIgnoringCase(DescriptionOf(in, n), in.identifier_text)
\* The children of n that can be reached, in index order.
Reached(in, n) ==
    IF Readable(in, n, "AXChildren")
    THEN SelectSeq(ChildList(in, n), LAMBDA m : m # NoElement)
    ELSE <<>>

RECURSIVE PreOrder(_, _)
RECURSIVE PreOrderOfAll(_, _, _)
\* n, then the subtrees of its children in index order
PreOrder(in, n) == <<n>> \o PreOrderOfAll(in, Reached(in, n), 1)
PreOrderOfAll(in, kids, i) ==
    IF i > Len(kids) THEN <<>>
    ELSE PreOrder(in, kids[i]) \o PreOrderOfAll(in, kids, i + 1)

FirstMatch(in) ==
    LET order == PreOrder(in, 1)
        hits == {i \in DOMAIN order : Satisfies(in, order[i])}
    IN IF hits = {} THEN NoElement
       ELSE order[CHOOSE i \in hits : \A j \in hits : i <= j]

RECURSIVE Ancestors(_, _)
Ancestors(in, n) ==
    IF n = 1 \/ in.parent[n] = 0 THEN {}
    ELSE {in.parent[n]} \cup Ancestors(in, in.parent[n])

Searched == ax_found # NotSearched
InTree(in) == {PreOrder(in, 1)[i] : i \in DOMAIN PreOrder(in, 1)}

Repaired(in) ==
    LET n == in.fail.node
        other(role) == IF role = "AXButton" THEN "AXGroup" ELSE "AXButton"
    IN IF n = NoElement THEN in
       ELSE [in EXCEPT
              !.fail = [node |-> NoElement, attr |-> "AXRole", kind |-> "error"],
              !.nodes[n].text =
                  IF \/ in.fail.attr = "AXTitle" /\ @ = "title"
                     \/ in.fail.attr = "AXDescription" /\ @ = "description"
                  THEN "none" ELSE @,
              !.nodes[n].role =
                  IF in.fail.attr = "AXRole" /\ in.target_role # NoRole
                  THEN other(in.target_role) ELSE @,
              !.parent = [m \in DOMAIN in.parent |->
                            IF /\ in.fail.attr = "AXChildren"
                               /\ in.fail.kind # "nullchild"
                               /\ in.parent[m] = n
                            THEN 0 ELSE in.parent[m]]]

HandledCommand(c, command) ==
    /\ Handled(c)
    /\ Last(received'[c]).shape = "object"
    /\ Last(received'[c]).command = command
\* The step wrote exactly one envelope to connection c.
OneMore(c) == Len(sent'[c]) = Len(sent[c]) + 1 /\ SubSeq(sent'[c], 1, Len(sent[c])) = sent[c]

\* C21: every step that handles a parsed command other than ping sends a
\* response whose type is <command>_response, whose original_command is the
\* command and whose received_payload is the payload of the request (null
\* when the request has none), whichever path builds the response.
C21_ResponseEchoesRequest ==
    [][\A c \in Clients :
        LET f == Last(received'[c]) IN
        (Handled(c) /\ f.shape = "object" /\ f.command # "ping")
        => /\ OneMore(c)
           /\ Last(sent'[c]).type = <<f.command, "_response">>
           /\ Last(sent'[c]).original_command = f.command
           /\ Last(sent'[c]).received_payload = f.payload]_vars

\* C22: every step that handles a ping with id X sends exactly one
\* envelope, with id X, type pong, status success and the fixed
\* acknowledgment as payload, and changes none of the rings, the
\* registration map, the observer and the connection registry.
C22_PingAnswered ==
    [][\A c \in Clients :
        (HandledCommand(c, "ping") /\ IsClientId(Last(received'[c]).id))
        => /\ OneMore(c)
           /\ Last(sent'[c]).id = Last(received'[c]).id
           /\ Last(sent'[c]).type = <<"pong">>
           /\ Last(sent'[c]).status = "success"
           /\ Last(sent'[c]).payload = <<"Hello from Python Hook!">>
           /\ UNCHANGED <<ringVars, watchVars, connected_clients, inserted>>]_vars

\* A ping was answered on a server whose command ring is no longer empty.
C22_Witness ==
    /\ Len(received[1]) = 2
    /\ received[1][2].shape = "object" /\ received[1][2].command = "ping"
    /\ IsClientId(received[1][2].id)
    /\ hook_executed_command_history # <<>>
    /\ Len(sent[1]) = 2
    /\ sent[1][2].type = <<"pong">> /\ sent[1][2].id = received[1][2].id

IdsSeen ==
    UNION {{sent[c][i].id : i \in DOMAIN sent[c]} \cup
           {received[c][i].id : i \in DOMAIN received[c]} : c \in Clients}

\* C24: every step that handles a frame that is not JSON sends exactly one
\* response, of status error and with an id that was never seen before,
\* changes nothing else of the server and leaves the connection open and
\* registered.
C24_MalformedFrameAnswered ==
    [][\A c \in Clients :
        (Handled(c) /\ Last(received'[c]).shape = "garbage")
        => /\ OneMore(c)
           /\ Last(sent'[c]).status = "error"
           /\ Last(sent'[c]).id \notin IdsSeen \cup {NullId, NoId}
           /\ conn'[c] = "open" /\ c \in connected_clients'
           /\ UNCHANGED <<connVars, watchVars, ringVars, inserted, invoked>>]_vars

\* Two frames that are not JSON were answered on the same connection, with
\* different ids, and the connection is still open.
C24_Witness ==
    /\ Len(received[1]) = 2 /\ Len(sent[1]) = 2
    /\ received[1][1].shape = "garbage" /\ received[1][2].shape = "garbage"
    /\ sent[1][1].status = "error" /\ sent[1][2].status = "error"
    /\ sent[1][1].id # sent[1][2].id
    /\ conn[1] = "open"

\* The handler of the frame raised in this step: some behaviour of its
\* collaborators makes it raise and leave the observer and the registration
\* map as the step does.
HandlerRaised(f) ==
    \E ext \in ExtFor(f.command) :
        /\ Handler(f, ext).raised
        /\ global_observer' = Handler(f, ext).obs
        /\ emitters' = Handler(f, ext).em
        /\ monitored_paths_details' = Handler(f, ext).map

\* C25: every step in which the handler of a command raises sends exactly
\* one response, of status error, with an error message and with the id of
\* the command; the connection stays open and registered (the exception
\* does not leave handle_message).
C25_HandlerExceptionAnswered ==
    [][\A c \in Clients :
        LET f == Last(received'[c]) IN
        (/\ Handled(c) /\ f.shape = "object" /\ f.command # "ping"
         /\ HandlerRaised(f))
        => /\ OneMore(c)
           /\ Last(sent'[c]).status = "error"
           /\ "error_message" \in DOMAIN Last(sent'[c])
           /\ Last(sent'[c]).error_message # NoMsg
           /\ IsClientId(f.id) => Last(sent'[c]).id = f.id
           /\ conn'[c] = "open" /\ c \in connected_clients']_vars

\* execute_shell_command came with an id and without a payload: the
\* AttributeError was answered with the id, and the connection is open.
C25_Witness ==
    /\ Len(received[1]) = 1 /\ Len(sent[1]) = 1
    /\ received[1][1].command = "execute_shell_command"
    /\ received[1][1].payload = Absent
    /\ IsClientId(received[1][1].id)
    /\ sent[1][1].id = received[1][1].id
    /\ sent[1][1].status = "error"
    /\ "error_message" \in DOMAIN sent[1][1]
    /\ conn[1] = "open" /\ 1 \in connected_clients

\* A required field of the command's payload is missing or invalid.
MissingRequired(f) ==
    LET pl == f.payload IN
    CASE f.command = "simulate_keystrokes" -> ~(Has(pl, "text") \/ pl.t = "str")
      [] f.command = "type_in_target_input" -> ~Has(pl, "text")
      [] f.command = "click_button_in_target" -> ~Has(pl, "button_identifier")
      [] f.command \in {"execute_shell_command", "terminal_run_in_new_tab"} ->
            ~Has(pl, "command")
      [] f.command = "move_mouse" -> ~(Has(pl, "x") /\ Has(pl, "y"))
      [] f.command = "mouse_click" ->
            \/ ~(Has(pl, "x") /\ Has(pl, "y"))
            \/ pl.button \notin {"left", "right"}
            \/ pl.click_type \notin {"click", "double_click"}
      [] f.command = "quit_application" -> ~Has(pl, "bundle_id")
      [] f.command = "start_fs_monitoring" -> ~Has(pl, "paths") \/ pl.paths_ty # "list"
      [] OTHER -> FALSE

\* C26: every step that handles a command whose required payload field is
\* missing or invalid sends a response of status error, performs no
\* external action and adds no history record.
C26_ValidationWithoutSideEffect ==
    [][\A c \in Clients :
        LET f == Last(received'[c]) IN
        (Handled(c) /\ f.shape = "object" /\ MissingRequired(f))
        => /\ OneMore(c)
           /\ Last(sent'[c]).status = "error"
           /\ invoked' = invoked
           /\ UNCHANGED <<ringVars, inserted>>]_vars

\* C26 for mouse_click alone: a click with an invalid button or click type
\* performs no external action.
C26_InvalidClickInjectsNothing ==
    [][\A c \in Clients :
        (HandledCommand(c, "mouse_click") /\ MissingRequired(Last(received'[c])))
        => invoked' = invoked]_vars

\* C27: every call of an external program that a handler is waiting for is
\* eventually over and the command answered, though the program may never
\* end by itself.
C27_EveryCallAnswered == (call.c # 0) ~> (call.c = 0)

\* C27 for the calls that are given a timeout: the call is eventually over.
C27_TimedCallAnswered ==
    (call.c # 0 /\ Timeout(call.f.command) > 0) ~> (call.c = 0)

\* C27, the result of a timeout: the step in which a timeout expires sends
\* one response of status error to the caller and closes nothing.
C27_TimeoutIsError ==
    [][\A c \in Clients :
        (call.c = c /\ TimeoutExpired) =>
            /\ OneMore(c)
            /\ Last(sent'[c]).status = "error"
            /\ Last(sent'[c]).id = call.f.id
            /\ conn'[c] = "open"]_vars

\* A call without timeout is pending.
C27_Witness == call.c # 0 /\ Timeout(call.f.command) = 0

\* The broadcast of snapshot s has not yet tried connection c.
Pending(c, s) == \E t \in running : t.msg.id = s.id /\ c \in t.todo

\* C28: each broadcast goes to the snapshot of the registry taken when it
\* started: a connection outside the snapshot gets no copy, whatever is
\* registered or unregistered meanwhile; a connection of the snapshot is
\* tried once, gets at most one copy, and gets it if it is still open,
\* whether or not the send to another connection failed.
C28_BroadcastToSnapshot ==
    \A s \in snapshots : \A c \in Clients :
        /\ Copies(c, s.id) <= 1
        /\ c \notin s.clients => Copies(c, s.id) = 0
        /\ Pending(c, s) => c \in s.clients /\ Copies(c, s.id) = 0
        /\ (c \in s.clients /\ ~Pending(c, s) /\ conn[c] = "open") => Copies(c, s.id) = 1

\* One broadcast started before the second client registered and reached
\* the first only; another found the first client's transport closed and
\* reached the second.
C28_Witness ==
    /\ running = {}
    /\ conn[2] = "open"
    /\ \E s1, s2 \in snapshots :
        /\ s1.clients = {1} /\ Copies(1, s1.id) = 1 /\ Copies(2, s1.id) = 0
        /\ s2.clients = {1, 2} /\ Copies(1, s2.id) = 0 /\ Copies(2, s2.id) = 1

\* The session of connection c is running: the connection was accepted and
\* register has not yet reached the end of its finally clause.
SessionRunning(c) == conn[c] \in {"open", "closed"}

\* C29: the registry holds exactly the connections whose session is
\* running, and unregistering a connection that is not in it leaves it as
\* it is.
C29_RegistryIsRunningSessions ==
    \A c \in Clients :
        /\ c \in connected_clients <=> SessionRunning(c)
        /\ c \notin connected_clients => unregister(connected_clients, c) = connected_clients
        /\ unregister(unregister(connected_clients, c), c) = unregister(connected_clients, c)

\* The first session ended on an exception that escaped handle_message and
\* its connection is out of the registry; the second, whose transport has
\* closed, is still running and still registered.
C29_Witness ==
    /\ conn[1] = "aborted"
    /\ conn[2] = "closed"
    /\ connected_clients = {2}

\* C30: every step in which a connection is accepted, loses its transport
\* or ends its session, the one that started the monitoring included,
\* leaves the registration map, the observer and its watches as they are.
C30_WatchSurvivesSessions ==
    [][(conn' # conn \/ connected_clients' # connected_clients)
        => UNCHANGED watchVars]_vars

\* The session of the client that started the monitoring has ended; the
\* observer runs and the map still holds the registration.
C30_Witness ==
    /\ conn[1] = "done"
    /\ connected_clients = {}
    /\ global_observer = "alive"
    /\ DOMAIN monitored_paths_details # {}
    /\ \E i \in DOMAIN received[1] : received[1][i].command = "start_fs_monitoring"

\* C31: while a handler is waiting for an external program, the only
\* command handled is that handler's own, on its own connection, and a
\* step that does not complete it changes neither the registration map,
\* nor the watcher, nor the history rings.
C31_HandlersSerialized ==
    [][call.c # 0 =>
        /\ \A c \in Clients :
             Handled(c) => c = call.c /\ Last(received'[c]) = call.f
        /\ (\A c \in Clients : ~Handled(c)) => UNCHANGED <<watchVars, ringVars>>]_vars

\* The first client waits for an external program while the second, whose
\* earlier command started the monitoring, is connected.
C31_Witness ==
    /\ call.c = 1
    /\ conn[2] = "open"
    /\ Len(received[2]) = 1
    /\ DOMAIN monitored_paths_details # {}

\* C32: on a connection whose client sent a command and then read one
\* frame, the frame read, the first one written to the connection, is the
\* response to that command.
C32_FirstFrameIsResponse ==
    \A c \in Clients :
        (received[c] # <<>> /\ WellFormed(received[c][1]) /\ sent[c] # <<>>)
        => /\ sent[c][1].kind = "response"
           /\ sent[c][1].id = received[c][1].id

\* Every file_system_event envelope written to a connection.
Broadcasts ==
    UNION {{sent[c][i] : i \in {j \in DOMAIN sent[c] : IsBroadcast(sent[c][j])}} :
           c \in Clients}

\* C33: every file_system_event envelope has status success, an event type
\* among created, deleted, modified and moved, and a dest_path exactly when
\* the event type is moved; the envelopes built for two different changes
\* have different ids.
C33_BroadcastEnvelopeShape ==
    /\ \A e \in Broadcasts :
        /\ e.type = "file_system_event"
        /\ e.status = "success"
        /\ e.payload.event_type \in EventTypes
        /\ "dest_path" \in DOMAIN e.payload <=> e.payload.event_type = "moved"
    /\ \A e1, e2 \in Broadcasts : e1.id = e2.id => e1 = e2
    /\ \A i, j \in DOMAIN changes :
        (i # j /\ changes[i].id # NoId) => changes[i].id # changes[j].id

\* A move and a change of another kind have both been broadcast.
C33_Witness ==
    \E e1, e2 \in Broadcasts :
        /\ e1.payload.event_type = "moved" /\ "dest_path" \in DOMAIN e1.payload
        /\ e2.payload.event_type # "moved" /\ "dest_path" \notin DOMAIN e2.payload
        /\ e1.id # e2.id

\* The paths the watcher is observing: those with a watch on an observer
\* whose thread runs.
Observed ==
    IF global_observer = "alive" THEN {p \in PathNames : emitters[p] > 0} ELSE {}

\* C34: the paths of the registration map are the paths the watcher is
\* observing, none when there is no watcher.
C34_MapIsWhatIsWatched == DOMAIN monitored_paths_details = Observed

\* C35: on every connection the handling of a command starts only when
\* every earlier command of the connection has its response, and the
\* response is written after the responses to the earlier commands and
\* carries the command's id.
C35_ResponsesInOrder ==
    [][\A c \in Clients :
        /\ (call.c = 0 /\ call'.c = c) => Len(Responses(c)) = Len(received[c])
        /\ Handled(c) =>
            /\ Len(Responses(c)) = Len(received[c])
            /\ OneMore(c)
            /\ Last(sent'[c]).kind = "response"
            /\ Last(sent'[c]).id = Last(received'[c]).id]_vars

\* Two commands of the first connection, the second one a call of an
\* external program, have been answered in their order.
C35_Witness ==
    /\ Len(received[1]) = 2
    /\ Len(Responses(1)) = 2
    /\ received[1][2] \in {[f EXCEPT !.id = ClientId(2)] : f \in CallFrames}
    /\ \A i \in 1..2 : Responses(1)[i].id = received[1][i].id

\* The step writes a file_system_event envelope to connection c.
BroadcastSent(c) ==
    /\ Len(sent'[c]) = Len(sent[c]) + 1
    /\ IsBroadcast(Last(sent'[c]))

\* C36: while the watcher is stopped, from the stop_fs_monitoring that
\* stopped it to the next start, no step writes a file_system_event
\* envelope to a connection and no step adds a record to the
\* filesystem-event history.
C36_SilentAfterStop ==
    [][global_observer = "None" =>
        /\ \A c \in Clients : ~BroadcastSent(c)
        /\ file_event_history' = file_event_history]_vars

\* C36, the history alone: while the watcher is stopped no step adds a
\* record to the filesystem-event history.
C36_NoRecordAfterStop ==
    [][global_observer = "None" => file_event_history' = file_event_history]_vars

C37_Pressed ==
    /\ ax_press # NotPressed
    /\ IsElement(ax_press.pressed)
    /\ ax_press.status = "success"

\* The commands that run an automation on the user's behalf, with the
\* payload field each requires.
AutomationCommands ==
    {"execute_shell_command", "terminal_run_in_new_tab", "quit_application"}
PassesValidation(f) ==
    /\ f.shape = "object"
    /\ f.command \in AutomationCommands
    /\ ~MissingRequired(f)

\* The feature the command's handler asks for is loaded.
FeatureLoaded(command) ==
    CASE command = "terminal_run_in_new_tab" -> MACOS_FEATURES_ENABLED
      [] command = "quit_application" -> APPKIT_LOADED
      [] OTHER -> TRUE

\* The step appends n records to the executed-automation-command ring.
Records(n) ==
    /\ Len(inserted'.exec) = Len(inserted.exec) + n
    /\ SubSeq(inserted'.exec, 1, Len(inserted.exec)) = inserted.exec

Forwarded == {i \in DOMAIN changes : Forwards(changes[i].ch)}

\* C39: once the watcher thread is back in the observer's loop, no
\* envelope was built for the modification of a directory, one was built
\* for every other change detected while a connection was registered, and
\* the filesystem-event history got one record for every change that is not
\* the modification of a directory and none for the others.
C39_OnlyDirectoryModificationsDropped ==
    wpc = "idle" =>
        /\ \A i \in DOMAIN changes \ Forwarded : changes[i].id = NoId
        /\ \A i \in Forwarded : changes[i].clients # {} => changes[i].id # NoId
        /\ Len(inserted.file) = Cardinality(Forwarded)

====
